---- MODULE Spec2Model ----
(***************************************************************************)
(* Model of src/src/soporte.py: geocoding of municipality names            *)
(* (obtener_coordenadas), flattening of raw Foursquare place records       *)
(* (extract_values_*, extract_data_df), one place search (get_data_places) *)
(* and the aggregation loop over municipalities x categories               *)
(* (get_all_data).                                                         *)
(*                                                                         *)
(* A pandas DataFrame is [cols |-> set of column labels, rows |-> sequence *)
(* of rows]. A row is a function from the labels whose cell is not NaN to  *)
(* the cell's value: a label of df.cols missing from DOMAIN row is a NaN   *)
(* cell. A raised Python exception is the value Raised.                    *)
(* Latitudes, longitudes and distances are only stored and copied by the   *)
(* code, never computed with, so integers stand for them.                  *)
(***************************************************************************)
EXTENDS Integers, Sequences, FiniteSets, TLC

VARIABLES
    \* obtener_coordenadas
    datos_input,   \* the argument: sequence of place names
    geo_i,         \* number of names the for loop has finished
    list_datos,    \* rows appended so far (line 66, 74)
    lookups,       \* geocode(i) calls issued so far, in order (line 69)
    geo_pc,        \* "idle" | "loop" | "returned" | "raised"
    geo_ret,       \* << >> while nothing was returned, <<table>> after return
    \* extract_data_df
    n_df,          \* the DataFrame argument
    n_municipio,   \* the municipio argument
    n_out,         \* << >> before the call, <<returned DataFrame>> after
    n_pc,          \* "idle" | "call" | "returned"
    \* get_all_data
    df,            \* the argument: rows <<municipio, latitud, longitud>>
    done,          \* number of (municipio, categoria) iterations finished
    df_final,      \* the accumulating DataFrame (line 143, 148)
    calls,         \* get_data_places calls issued so far, in order (line 147)
    batches,       \* the df_temp each finished call returned, in call order
    pc,            \* "idle" | "loop" | "returned" | "raised"
    ret            \* << >> while nothing was returned, <<table>> after return

geo_vars  == <<datos_input, geo_i, list_datos, lookups, geo_pc, geo_ret>>
norm_vars == <<n_df, n_municipio, n_out, n_pc>>
all_vars  == <<df, done, df_final, calls, batches, pc, ret>>
vars      == <<geo_vars, norm_vars, all_vars>>

(***************************************************************************)
(* Bounds of the model.                                                    *)
(***************************************************************************)
MaxNames      == 3   \* length of datos_input
MaxBatch      == 2   \* records in one results array
MaxMunicipios == 2   \* rows of the table given to get_all_data
MaxRows       == 2   \* rows all searches of one run return together

Range(s) == {s[k] : k \in DOMAIN s}
SeqsUpTo(S, n) == UNION {[1..k -> S] : k \in 0..n}
Last(s) == s[Len(s)]

(***************************************************************************)
(* Python exceptions and DataFrame primitives.                             *)
(***************************************************************************)
Raised == [raised |-> TRUE]
Value(v) == [raised |-> FALSE, value |-> v]

\* pd.DataFrame(result) with result == [] (line 142-143)
EmptyFrame == [cols |-> {}, rows |-> << >>]

\* pd.DataFrame(list of dicts): the columns are the union of the keys, a key
\* a dict lacks is a NaN cell of its row.
DataFrame(records) ==
    [cols |-> UNION {DOMAIN records[k] : k \in DOMAIN records}, rows |-> records]

With(row, label, v) ==
    [k \in (DOMAIN row) \cup {label} |-> IF k = label THEN v ELSE row[k]]

\* df[label] = scalar
SetScalar(frame, label, v) ==
    [cols |-> frame.cols \cup {label},
     rows |-> [k \in DOMAIN frame.rows |-> With(frame.rows[k], label, v)]]

\* df[label] = values, one value per row
SetColumn(frame, label, values) ==
    [cols |-> frame.cols \cup {label},
     rows |-> [k \in DOMAIN frame.rows |-> With(frame.rows[k], label, values[k])]]

\* df.drop(labels, axis=1)
DropColumns(frame, labels) ==
    [cols |-> frame.cols \ labels,
     rows |-> [k \in DOMAIN frame.rows |->
                 [c \in (DOMAIN frame.rows[k]) \ labels |-> frame.rows[k][c]]]]

\* Series.apply: the outcomes of the function on the cells, in row order;
\* the first exception propagates, otherwise the values are collected
Collect(outcomes) ==
    IF \E k \in DOMAIN outcomes : outcomes[k].raised THEN Raised
    ELSE Value([k \in DOMAIN outcomes |-> outcomes[k].value])

(***************************************************************************)
(* The record extractor (lines 85-99).                                     *)
(***************************************************************************)
\* dictionary[0] raises IndexError on an empty list, ['id'] / ['name'] raise
\* KeyError on an entry without that key.
extract_values_categoria_last(dictionary) ==
    IF Len(dictionary) = 0 THEN Raised
    ELSE IF "id" \notin DOMAIN Last(dictionary) THEN Raised
    ELSE IF "name" \notin DOMAIN Last(dictionary) THEN Raised
    ELSE Value(<<Last(dictionary).id, Last(dictionary).name>>)

extract_values_categoria(dictionary) ==
    IF Len(dictionary) = 0 THEN Raised
    ELSE IF "id" \notin DOMAIN dictionary[1] THEN Raised
    ELSE IF "name" \notin DOMAIN dictionary[1] THEN Raised
    ELSE Value(<<dictionary[1].id, dictionary[1].name>>)

extract_values_datos(dictionary) ==
    IF "formatted_address" \notin DOMAIN dictionary THEN Raised
    ELSE Value(dictionary.formatted_address)

extract_values_position_swapped(dictionary) ==
    IF "main" \notin DOMAIN dictionary THEN Raised
    ELSE IF "latitude" \notin DOMAIN dictionary.main THEN Raised
    ELSE IF "longitude" \notin DOMAIN dictionary.main THEN Raised
    ELSE Value(<<dictionary.main.longitude, dictionary.main.latitude>>)

extract_values_position(dictionary) ==
    IF "main" \notin DOMAIN dictionary THEN Raised
    ELSE IF "latitude" \notin DOMAIN dictionary.main THEN Raised
    ELSE IF "longitude" \notin DOMAIN dictionary.main THEN Raised
    ELSE Value(<<dictionary.main.latitude, dictionary.main.longitude>>)

(***************************************************************************)
(* The table normalizer (lines 101-111). The assignments of lines 105-107  *)
(* change df in place one after the other, so an exception at line 106 or  *)
(* 107 leaves the columns the earlier lines added; except: pass swallows   *)
(* the exception and line 111 returns df as it then is.                    *)
(***************************************************************************)
\* df[label].apply(lambda x: pd.Series(extract(x))) of lines 105-107:
\* df[label] raises KeyError when the frame has no such column; a NaN cell
\* is a float, and the extractor's subscript of it raises TypeError.
apply_categoria(frame) ==
    IF "categories" \notin frame.cols THEN Raised
    ELSE Collect([k \in DOMAIN frame.rows |->
            IF "categories" \notin DOMAIN frame.rows[k] THEN Raised
            ELSE extract_values_categoria(frame.rows[k].categories)])
apply_datos(frame) ==
    IF "location" \notin frame.cols THEN Raised
    ELSE Collect([k \in DOMAIN frame.rows |->
            IF "location" \notin DOMAIN frame.rows[k] THEN Raised
            ELSE extract_values_datos(frame.rows[k].location)])
apply_position(frame) ==
    IF "geocodes" \notin frame.cols THEN Raised
    ELSE Collect([k \in DOMAIN frame.rows |->
            IF "geocodes" \notin DOMAIN frame.rows[k] THEN Raised
            ELSE extract_values_position(frame.rows[k].geocodes)])

NestedColumns  == {"categories", "location", "geocodes"}
DerivedColumns == {"id_categoria", "categoria", "direccion", "latitud", "longitud"}

\* line 105, after the apply succeeded
SetCategoria(frame, values) ==
    SetColumn(SetColumn(frame, "id_categoria", [k \in DOMAIN values |-> values[k][1]]),
              "categoria", [k \in DOMAIN values |-> values[k][2]])

\* line 107, after the apply succeeded
SetPosition(frame, values) ==
    SetColumn(SetColumn(frame, "latitud", [k \in DOMAIN values |-> values[k][1]]),
              "longitud", [k \in DOMAIN values |-> values[k][2]])

\* variant: the extraction works on a copy and the frame is kept on a failure
extract_data_df_copy(frame, municipio) ==
    LET d0 == SetScalar(frame, "municipio", municipio)
        a1 == apply_categoria(d0)
        d1 == SetCategoria(d0, a1.value)
        a2 == apply_datos(d1)
        d2 == SetColumn(d1, "direccion", a2.value)
        a3 == apply_position(d2)
        d3 == SetPosition(d2, a3.value)
    IN  IF a1.raised \/ a2.raised \/ a3.raised THEN d0
        ELSE DropColumns(d3, NestedColumns)

\* variant: the drop of line 108 is done whether or not an extraction failed
extract_data_df_drop_always(frame, municipio) ==
    LET d0 == SetScalar(frame, "municipio", municipio)
        a1 == apply_categoria(d0)
        d1 == SetCategoria(d0, a1.value)
        a2 == apply_datos(d1)
        d2 == SetColumn(d1, "direccion", a2.value)
        a3 == apply_position(d2)
        d3 == SetPosition(d2, a3.value)
    IN  DropColumns(IF a1.raised THEN d0
                    ELSE IF a2.raised THEN d1
                    ELSE IF a3.raised THEN d2
                    ELSE d3, NestedColumns)

extract_data_df(frame, municipio) ==
    LET d0 == SetScalar(frame, "municipio", municipio)    \* lines 102-103
        a1 == apply_categoria(d0)                         \* line 105
        d1 == SetCategoria(d0, a1.value)
        a2 == apply_datos(d1)                             \* line 106
        d2 == SetColumn(d1, "direccion", a2.value)
        a3 == apply_position(d2)                          \* line 107
        d3 == SetPosition(d2, a3.value)
    IN  IF a1.raised THEN d0                              \* lines 109-111
        ELSE IF a2.raised THEN d1
        ELSE IF a3.raised THEN d2
        ELSE DropColumns(d3, NestedColumns)               \* line 108

(***************************************************************************)
(* Raw place records: the entries of the "results" array of the places     *)
(* search response (fields fsq_id, name, location, categories, distance,   *)
(* geocodes are requested, line 116).                                      *)
(***************************************************************************)
\* line 58, three of its 179 names, in its order
lista_municipios == <<"ajalvir", "alcorcon", "getafe">>
Names == Range(lista_municipios)

c_park   == [id |-> 16032, name |-> "Park"]
c_rest   == [id |-> 13065, name |-> "Restaurant"]
c_noname == [id |-> 17114]

GoodCategoryLists == {<<c_park>>, <<c_rest, c_park>>, <<c_park, c_noname>>}
BadCategoryLists  == {<< >>, <<c_noname, c_park>>}

\* a place: what the provider knows of one venue
Places ==
    { [fsq_id |-> "p1", distance |-> 120,
       location |-> [country |-> "ES", formatted_address |-> "Calle A 1"],
       geocodes |-> [main |-> [latitude |-> 40, longitude |-> -3]]],
      [fsq_id |-> "p2", distance |-> 850,
       location |-> [country |-> "ES", formatted_address |-> "Calle B 2"],
       geocodes |-> [main |-> [latitude |-> 41, longitude |-> -4],
                     roof |-> [latitude |-> 41, longitude |-> -5]]] }

BadLocations == {[country |-> "ES"]}
BadGeocodes  == {[roof |-> [latitude |-> 40, longitude |-> -3]],
                 [main |-> [latitude |-> 40]]}

Restrict(f, S) == [k \in S |-> f[k]]
PassThrough == {"fsq_id", "distance"}

\* the record of place p with category list cs
Record(p, cs) == With(p, "categories", cs)

WellFormedRecords == {Record(p, cs) : p \in Places, cs \in GoodCategoryLists}

\* records lacking one or more of the nested keys
PartialRecords ==
    {Restrict(Record(p, <<c_rest, c_park>>), PassThrough \cup keys) :
        p \in Places, keys \in (SUBSET NestedColumns) \ {NestedColumns}}

\* records with one nested value of an unexpected shape
MisshapenRecords ==
    {Record(p, cs) : p \in Places, cs \in BadCategoryLists}
    \cup {With(Record(p, <<c_park>>), "location", l) : p \in Places, l \in BadLocations}
    \cup {With(Record(p, <<c_park>>), "geocodes", g) : p \in Places, g \in BadGeocodes}

RawRecords == WellFormedRecords \cup PartialRecords \cup MisshapenRecords

\* the boundary contract of a well-formed record
CategoriesOk(r) ==
    /\ "categories" \in DOMAIN r
    /\ Len(r.categories) > 0
    /\ {"id", "name"} \subseteq DOMAIN r.categories[1]
LocationOk(r) ==
    /\ "location" \in DOMAIN r
    /\ "formatted_address" \in DOMAIN r.location
GeocodesOk(r) ==
    /\ "geocodes" \in DOMAIN r
    /\ "main" \in DOMAIN r.geocodes
    /\ {"latitude", "longitude"} \subseteq DOMAIN r.geocodes.main
WellFormed(r) == CategoriesOk(r) /\ LocationOk(r) /\ GeocodesOk(r)

(***************************************************************************)
(* Specification of one extract_data_df call on a bounded batch.           *)
(***************************************************************************)
GeoIdle ==
    /\ datos_input = << >> /\ geo_i = 0 /\ list_datos = << >>
    /\ lookups = << >> /\ geo_pc = "idle" /\ geo_ret = << >>
NormIdle ==
    /\ n_df = EmptyFrame /\ n_municipio = "" /\ n_out = << >> /\ n_pc = "idle"
AllIdle ==
    /\ df = << >> /\ done = 0 /\ df_final = EmptyFrame /\ calls = << >>
    /\ batches = << >> /\ pc = "idle" /\ ret = << >>

NormInit ==
    /\ n_df \in {DataFrame(b) : b \in SeqsUpTo(RawRecords, MaxBatch)}
    /\ n_municipio \in Names
    /\ n_out = << >>
    /\ n_pc = "call"
    /\ GeoIdle /\ AllIdle

Normalize ==
    /\ n_pc = "call"
    /\ n_out' = <<extract_data_df(n_df, n_municipio)>>
    /\ n_pc' = "returned"
    /\ UNCHANGED <<n_df, n_municipio, geo_vars, all_vars>>

NormNext == Normalize
SpecNorm == NormInit /\ [][NormNext]_vars

(***************************************************************************)
(* obtener_coordenadas (lines 61-83). geocode(i) answers with a location   *)
(* or with None; an answer is << >> for None and <<location>> otherwise.   *)
(***************************************************************************)
GeoLocations == {[latitude |-> 40, longitude |-> -3], [latitude |-> 41, longitude |-> -4]}
GeoAnswers == {<< >>} \cup {<<l>> : l \in GeoLocations}

\* lines 70-74 for name i and the answer of line 69: location.latitude of
\* None raises AttributeError before list_datos.append
\* variant: an unmatched name is skipped
append_datos_skip(list, i, location) ==
    IF location = << >> THEN Value(list)
    ELSE Value(Append(list, <<i, location[1].latitude, location[1].longitude>>))

\* variant: the new row is put first
append_datos_first(list, i, location) ==
    IF location = << >> THEN Raised
    ELSE Value(<<(<<i, location[1].latitude, location[1].longitude>>)>> \o list)

append_datos(list, i, location) ==
    IF location = << >> THEN Raised
    ELSE Value(Append(list, <<i, location[1].latitude, location[1].longitude>>))

\* lines 77-81: pd.DataFrame(list_datos) renamed to municipio, latitud, longitud
coordenadas_df(list) ==
    DataFrame([k \in DOMAIN list |->
        [municipio |-> list[k][1], latitud |-> list[k][2], longitud |-> list[k][3]]])

GeoInit ==
    /\ datos_input \in SeqsUpTo(Names, MaxNames)
    /\ geo_i = 0
    /\ list_datos = << >>
    /\ lookups = << >>
    /\ geo_pc = "loop"
    /\ geo_ret = << >>
    /\ NormIdle /\ AllIdle

\* one iteration of the for loop of line 68
GeoLookup(answer) ==
    /\ geo_pc = "loop"
    /\ geo_i < Len(datos_input)
    /\ LET i == datos_input[geo_i + 1]
           r == append_datos(list_datos, i, answer)
       IN  /\ lookups' = Append(lookups, [query |-> i, answer |-> answer])
           /\ IF r.raised
              THEN /\ geo_pc' = "raised"
                   /\ UNCHANGED <<geo_i, list_datos>>
              ELSE /\ geo_pc' = "loop"
                   /\ geo_i' = geo_i + 1
                   /\ list_datos' = r.value
    /\ UNCHANGED <<datos_input, geo_ret, norm_vars, all_vars>>

\* lines 77-83 once the loop is exhausted
GeoReturn ==
    /\ geo_pc = "loop"
    /\ geo_i = Len(datos_input)
    /\ geo_ret' = <<coordenadas_df(list_datos)>>
    /\ geo_pc' = "returned"
    /\ UNCHANGED <<datos_input, geo_i, list_datos, lookups, norm_vars, all_vars>>

GeoNext ==
    \/ \E answer \in GeoAnswers : GeoLookup(answer)
    \/ GeoReturn
SpecGeo == GeoInit /\ [][GeoNext]_vars

(***************************************************************************)
(* get_data_places (lines 114-128). resultado is the parsed JSON body of   *)
(* the one GET of line 123.                                                *)
(***************************************************************************)
\* line 116-121: what the request carries
request(categorias, distancia, latitud, longitud) ==
    [ll |-> <<latitud, longitud>>, radius |-> distancia, categories |-> categorias,
     sort |-> "DISTANCE"]

\* lines 124-128: resultado['results'] raises KeyError on a body without it
get_data_places(municipio, resultado) ==
    IF "results" \notin DOMAIN resultado THEN Raised
    ELSE Value(extract_data_df(DataFrame(resultado.results), municipio))

(***************************************************************************)
(* get_all_data (lines 130-150).                                           *)
(***************************************************************************)
distancia == 2000
categoria == <<16032, 17114, 13065, 17043, 11006>>

\* pd.concat(frames, ignore_index=True): the rows of the frames one after the
\* other, the union of their columns, NaN where a frame lacks a column
RECURSIVE concat_rows(_)
concat_rows(frames) ==
    IF frames = << >> THEN << >>
    ELSE Head(frames).rows \o concat_rows(Tail(frames))
concat(frames) ==
    [cols |-> UNION {frames[k].cols : k \in DOMAIN frames},
     rows |-> concat_rows(frames)]

\* variants of line 148
accumulate_overwrite(df_temp, final) == df_temp
accumulate_append(df_temp, final) == concat(<<final, df_temp>>)

\* line 148
accumulate(df_temp, final) == concat(<<df_temp, final>>)

\* the loop heads of lines 145-146: the iteration after `n` finished ones
municipio_index(n) == (n \div Len(categoria)) + 1
categoria_index_reversed(n) == Len(categoria) - (n % Len(categoria))
categoria_index(n) == (n % Len(categoria)) + 1

\* line 147-148 for the outcome of one get_data_places call: an exception is
\* not caught and leaves get_all_data
\* variant: a failed search is skipped
after_search_caught(final, outcome) ==
    IF outcome.raised THEN Value(final) ELSE Value(accumulate(outcome.value, final))

after_search(final, outcome) ==
    IF outcome.raised THEN Raised ELSE Value(accumulate(outcome.value, final))

\* response bodies the places API may answer with
\* (a well-formed record, one without categories, one without address)
SearchRecords ==
    { Record(CHOOSE p \in Places : p.fsq_id = "p1", <<c_rest, c_park>>),
      Record(CHOOSE p \in Places : p.fsq_id = "p2", << >>),
      With(Record(CHOOSE p \in Places : p.fsq_id = "p2", <<c_park>>),
           "location", [country |-> "ES"]) }
Responses ==
    {[message |-> "Invalid request token."]}
    \cup {[results |-> b] : b \in SeqsUpTo(SearchRecords, MaxBatch)}

\* tables obtener_coordenadas can return for sub-lists of lista_municipios:
\* rows [municipio, latitud, longitud] as df.values.tolist() lists them (139)
Coordenadas == [n \in Names |->
    IF n = "ajalvir" THEN <<40, -3>> ELSE IF n = "alcorcon" THEN <<41, -4>> ELSE <<42, -5>>]
SubLists(s, n) ==
    {t \in SeqsUpTo(Range(s), n) :
        \E f \in [DOMAIN t -> DOMAIN s] :
            /\ \A k \in DOMAIN t : s[f[k]] = t[k]
            /\ \A j, k \in DOMAIN t : j < k => f[j] < f[k]}
MunicipioTables ==
    {[k \in DOMAIN t |-> <<t[k], Coordenadas[t[k]][1], Coordenadas[t[k]][2]>>] :
        t \in SubLists(lista_municipios, MaxMunicipios)}

AllInit ==
    /\ df \in MunicipioTables
    /\ done = 0
    /\ df_final = EmptyFrame
    /\ calls = << >>
    /\ batches = << >>
    /\ pc = "loop"
    /\ ret = << >>
    /\ GeoIdle /\ NormIdle

\* one iteration of the nested loops (lines 145-148)
Search(resultado) ==
    /\ pc = "loop"
    /\ municipio_index(done) <= Len(df)
    /\ "results" \in DOMAIN resultado =>
           Len(df_final.rows) + Len(resultado.results) <= MaxRows
    /\ LET e == df[municipio_index(done)]
           c == categoria[categoria_index(done)]
           outcome == get_data_places(e[1], resultado)
           r == after_search(df_final, outcome)
       IN  /\ calls' = Append(calls,
                  [municipio |-> e[1], request |-> request(c, distancia, e[2], e[3])])
           /\ batches' = Append(batches, [resultado |-> resultado, outcome |-> outcome])
           /\ IF r.raised
              THEN /\ pc' = "raised"
                   /\ UNCHANGED <<done, df_final>>
              ELSE /\ pc' = "loop"
                   /\ done' = done + 1
                   /\ df_final' = r.value
    /\ UNCHANGED <<df, ret, geo_vars, norm_vars>>

\* line 150 once both loops are exhausted
Return ==
    /\ pc = "loop"
    /\ municipio_index(done) > Len(df)
    /\ ret' = <<df_final>>
    /\ pc' = "returned"
    /\ UNCHANGED <<df, done, df_final, calls, batches, geo_vars, norm_vars>>

Next ==
    \/ \E resultado \in Responses : Search(resultado)
    \/ Return
Spec == AllInit /\ [][Next]_vars

(***************************************************************************)
(* Properties of extract_data_df, under SpecNorm.                          *)
(***************************************************************************)
NormReturned == n_pc = "returned"
NormRows == n_df.rows
AllWellFormed == \A k \in DOMAIN NormRows : WellFormed(NormRows[k])

\* the cells of row o under the labels S: the NaN cells are those left out
Cells(o, S) == [c \in (DOMAIN o) \cap S |-> o[c]]

\* C1: a batch of well-formed records comes back as one flat row per record,
\* in the same order, with id_categoria/categoria the id/name of element 0 of
\* the record's categories, direccion its location.formatted_address,
\* latitud/longitud its geocodes.main.latitude/longitude and municipio the
\* municipality argument.
C1_WellFormedBatchIsFlattened ==
    (NormReturned /\ AllWellFormed) =>
        /\ Len(n_out[1].rows) = Len(NormRows)
        /\ \A k \in DOMAIN NormRows :
             LET r == NormRows[k]
                 o == n_out[1].rows[k]
             IN  /\ DOMAIN o = PassThrough \cup DerivedColumns \cup {"municipio"}
                 /\ o.fsq_id = r.fsq_id
                 /\ o.id_categoria = r.categories[1].id
                 /\ o.categoria = r.categories[1].name
                 /\ o.direccion = r.location.formatted_address
                 /\ o.latitud = r.geocodes.main.latitude
                 /\ o.longitud = r.geocodes.main.longitude
                 /\ o.municipio = n_municipio

C1_Witness ==
    /\ NormReturned /\ AllWellFormed
    /\ Len(NormRows) = 2
    /\ NormRows[1].fsq_id # NormRows[2].fsq_id
    /\ Len(NormRows[1].categories) = 2
    /\ NormRows[1].categories[1] # NormRows[1].categories[2]
    /\ n_out[1].rows[1].categoria = "Restaurant"

\* the derived columns of the extraction steps that come before the first
\* step (categories, location, geocodes, in that order) some record fails
StepsBeforeFailure ==
    IF \E k \in DOMAIN NormRows : ~CategoriesOk(NormRows[k]) THEN {}
    ELSE IF \E k \in DOMAIN NormRows : ~LocationOk(NormRows[k])
         THEN {"id_categoria", "categoria"}
         ELSE IF \E k \in DOMAIN NormRows : ~GeocodesOk(NormRows[k])
              THEN {"id_categoria", "categoria", "direccion"}
              ELSE DerivedColumns

PassedThrough ==
    /\ Len(n_out[1].rows) = Len(NormRows)
    /\ n_df.cols \ NestedColumns \subseteq n_out[1].cols
    /\ \A k \in DOMAIN NormRows :
         Cells(n_out[1].rows[k], n_df.cols \ NestedColumns)
             = Cells(NormRows[k], n_df.cols \ NestedColumns)

\* C9 as stated: the three nested columns are absent from the output exactly
\* when every record is well-formed, on a failure all three are present, and
\* the other original columns pass through unchanged.
C9_NestedAbsentIffSuccess ==
    NormReturned =>
        /\ (n_out[1].cols \cap NestedColumns = {}) <=> AllWellFormed
        /\ ~AllWellFormed => NestedColumns \subseteq n_out[1].cols
        /\ PassedThrough

\* C9 amended: the nested columns are dropped when every record is
\* well-formed; on a failure none is dropped, every nested column the batch
\* had is still there with its cells; the other original columns pass
\* through unchanged in both cases.
C9_NestedDroppedOnlyOnSuccess ==
    NormReturned =>
        /\ n_out[1].cols \cap NestedColumns =
               IF AllWellFormed THEN {} ELSE n_df.cols \cap NestedColumns
        /\ \A k \in DOMAIN NormRows :
               Cells(n_out[1].rows[k], NestedColumns) =
                   IF AllWellFormed THEN << >> ELSE Cells(NormRows[k], NestedColumns)
        /\ PassedThrough

C9_Witness ==
    /\ NormReturned /\ ~AllWellFormed
    /\ Len(NormRows) = 2
    /\ NormRows[1].fsq_id # NormRows[2].fsq_id
    /\ n_df.cols \cap NestedColumns = {"categories", "location"}
    /\ n_out[1].cols \cap NestedColumns = {"categories", "location"}

(***************************************************************************)
(* Properties of obtener_coordenadas, under SpecGeo.                       *)
(***************************************************************************)
\* the lookups issued so far ask for the first names of the input, in order
LookupsFollowInput ==
    /\ Len(lookups) <= Len(datos_input)
    /\ \A k \in DOMAIN lookups : lookups[k].query = datos_input[k]

\* C7: a lookup that finds no match is the last lookup: the call ends there
\* with an error, nothing is returned (the rows resolved before it are lost)
\* and no name after it is looked up.
C7_GeocodingFailsFast ==
    \A k \in DOMAIN lookups :
        lookups[k].answer = << >> =>
            /\ k = Len(lookups)
            /\ LookupsFollowInput
            /\ geo_pc = "raised"
            /\ geo_ret = << >>
            /\ ~ENABLED GeoNext

C7_Witness ==
    /\ geo_pc = "raised"
    /\ Len(datos_input) = 3
    /\ Len(lookups) = 2
    /\ lookups[2].answer = << >>
    /\ Len(list_datos) = 1
    /\ geo_ret = << >>

\* C8: when every name is matched, one lookup is issued per name of the
\* input, in input order (a repeated name is looked up again), and the
\* returned table has one (municipio, latitud, longitud) row per name, in
\* input order, with the coordinates of that name's own lookup.
C8_OneLookupAndRowPerName ==
    /\ (\A k \in DOMAIN lookups : lookups[k].answer # << >>) => LookupsFollowInput
    /\ (geo_pc = "returned" /\ \A k \in DOMAIN lookups : lookups[k].answer # << >>) =>
        /\ Len(lookups) = Len(datos_input)
        /\ Len(geo_ret) = 1
        /\ Len(geo_ret[1].rows) = Len(datos_input)
        /\ \A k \in DOMAIN datos_input :
             geo_ret[1].rows[k] =
                 [municipio |-> datos_input[k],
                  latitud |-> lookups[k].answer[1].latitude,
                  longitud |-> lookups[k].answer[1].longitude]

C8_Witness ==
    /\ geo_pc = "returned"
    /\ Len(datos_input) = 3
    /\ datos_input[1] = datos_input[3]
    /\ datos_input[1] # datos_input[2]
    /\ Len(lookups) = 3
    /\ lookups[1].answer # lookups[3].answer
    /\ Len(geo_ret[1].rows) = 3

(***************************************************************************)
(* Properties of get_all_data, under Spec.                                 *)
(***************************************************************************)
\* the calls one municipality row gives rise to, in the order of the claim
CategoryOrder == <<16032, 17114, 13065, 17043, 11006>>
CallsOfRow(e) ==
    [k \in DOMAIN CategoryOrder |->
        [municipio |-> e[1],
         request |-> [ll |-> <<e[2], e[3]>>, radius |-> 2000,
                      categories |-> CategoryOrder[k], sort |-> "DISTANCE"]]]
RECURSIVE ExpectedCalls(_)
ExpectedCalls(table) ==
    IF table = << >> THEN << >>
    ELSE CallsOfRow(Head(table)) \o ExpectedCalls(Tail(table))

\* C3: with no search raising, the calls are issued one by one, municipality
\* by municipality in row order and, for each, category by category in the
\* order 16032, 17114, 13065, 17043, 11006, each with the row's own name,
\* latitude and longitude and radius 2000; after exactly 5 calls per row the
\* function returns, and not before.
C3_CallsInNestedOrder ==
    pc # "raised" =>
        /\ Len(calls) <= Len(ExpectedCalls(df))
        /\ \A k \in DOMAIN calls : calls[k] = ExpectedCalls(df)[k]
        /\ pc = "returned" => Len(calls) = 5 * Len(df) /\ ~ENABLED Next
        /\ (pc = "loop" /\ Len(calls) = 5 * Len(df)) =>
               ENABLED Return /\ ~ENABLED (\E resultado \in Responses : Search(resultado))
        /\ (pc = "loop" /\ Len(calls) < 5 * Len(df)) =>
               ~ENABLED Return /\ ENABLED (\E resultado \in Responses : Search(resultado))

BatchRows(b) == IF b.outcome.raised THEN << >> ELSE b.outcome.value.rows

C3_Witness ==
    /\ pc = "returned"
    /\ Len(df) = 2
    /\ Len(calls) = 10
    /\ \E k \in DOMAIN batches : BatchRows(batches[k]) = << >>
    /\ \E k \in DOMAIN batches :
         /\ BatchRows(batches[k]) # << >>
         /\ ~WellFormed(batches[k].resultado.results[1])

\* C4: a search that fails is the last one: the failure leaves get_all_data,
\* no later pair is queried and no table is returned, the rows of the
\* earlier pairs included.
C4_AggregationFailsFast ==
    \A k \in DOMAIN batches :
        batches[k].outcome.raised =>
            /\ k = Len(batches)
            /\ Len(calls) = k
            /\ pc = "raised"
            /\ ret = << >>
            /\ ~ENABLED Next

C4_Witness ==
    /\ pc = "raised"
    /\ Len(calls) = 7
    /\ Len(df) = 2
    /\ Len(df_final.rows) = 2
    /\ ret = << >>

\* row j of the batch of call k, against the record it was made from
RowOfItsMunicipio(k, j) ==
    LET o == BatchRows(batches[k])[j]
    IN  /\ "municipio" \in DOMAIN o
        /\ o.municipio = calls[k].municipio
RowOfFirstCategory(k, j) ==
    LET o == BatchRows(batches[k])[j]
        r == batches[k].resultado.results[j]
    IN  /\ {"id_categoria", "categoria"} \subseteq DOMAIN o
        /\ CategoriesOk(r)
        /\ o.id_categoria = r.categories[1].id
        /\ o.categoria = r.categories[1].name
RowWithoutCategory(k, j) ==
    (DOMAIN BatchRows(batches[k])[j]) \cap {"id_categoria", "categoria"} = {}
TableRowsComeFromBatches ==
    /\ \A i \in DOMAIN df_final.rows :
         \E k \in DOMAIN batches :
            \E j \in DOMAIN BatchRows(batches[k]) :
                df_final.rows[i] = BatchRows(batches[k])[j]
    /\ \A k \in DOMAIN batches :
         \A j \in DOMAIN BatchRows(batches[k]) :
            \E i \in DOMAIN df_final.rows : df_final.rows[i] = BatchRows(batches[k])[j]
    /\ pc = "returned" => ret = <<df_final>>

\* C5 as stated: every row of the table has the municipio of the search that
\* produced it and the id and name of the first category of its record.
C5_EveryRowHasFirstCategory ==
    /\ TableRowsComeFromBatches
    /\ \A k \in DOMAIN batches :
         \A j \in DOMAIN BatchRows(batches[k]) :
            RowOfItsMunicipio(k, j) /\ RowOfFirstCategory(k, j)

\* C5 amended: every row of the table has the municipio of the search that
\* produced it; it has the id and name of the first category of its record
\* when the category extraction succeeded for every record of its batch, and
\* no category at all otherwise.
C5_RowsOfExtractedBatchesHaveFirstCategory ==
    /\ TableRowsComeFromBatches
    /\ \A k \in DOMAIN batches :
         \A j \in DOMAIN BatchRows(batches[k]) :
            /\ RowOfItsMunicipio(k, j)
            /\ IF \A i \in DOMAIN batches[k].resultado.results :
                     CategoriesOk(batches[k].resultado.results[i])
               THEN RowOfFirstCategory(k, j)
               ELSE RowWithoutCategory(k, j)

C5_Witness ==
    /\ pc = "returned"
    /\ Len(ret[1].rows) = 2
    /\ "id_categoria" \notin DOMAIN ret[1].rows[1]
    /\ "id_categoria" \in DOMAIN ret[1].rows[2]
    /\ ret[1].rows[2].categoria = "Restaurant"
    /\ ret[1].rows[1].municipio # ret[1].rows[2].municipio

Count(seq, x) == Cardinality({k \in DOMAIN seq : seq[k] = x})
RECURSIVE SumOfLengths(_)
SumOfLengths(bs) ==
    IF bs = << >> THEN 0 ELSE Len(BatchRows(Head(bs))) + SumOfLengths(Tail(bs))
RECURSIVE SumOfCounts(_, _)
SumOfCounts(bs, x) ==
    IF bs = << >> THEN 0 ELSE Count(BatchRows(Head(bs)), x) + SumOfCounts(Tail(bs), x)

\* C6: after every iteration the table has as many rows as the batches
\* returned so far have together, and every row of a batch, with the
\* municipio and category cells it had in the batch, is in the table as
\* many times as the batches hold it: nothing is lost, merged or deduplicated.
C6_ConcatenationKeepsEveryRow ==
    /\ Len(df_final.rows) = SumOfLengths(batches)
    /\ \A x \in Range(df_final.rows) \cup UNION {Range(BatchRows(batches[k])) : k \in DOMAIN batches} :
         Count(df_final.rows, x) = SumOfCounts(batches, x)

C6_Witness ==
    /\ Len(df_final.rows) = 2
    /\ df_final.rows[1] = df_final.rows[2]
    /\ \E k, l \in DOMAIN batches :
         k # l /\ Len(BatchRows(batches[k])) = 1 /\ Len(BatchRows(batches[l])) = 1

RECURSIVE LatestFirst(_)
LatestFirst(bs) ==
    IF bs = << >> THEN << >> ELSE LatestFirst(Tail(bs)) \o BatchRows(Head(bs))

\* C10: the table holds the batches latest call first: the rows of the batch
\* of a later call all come before the rows of the batch of an earlier call,
\* and the rows of one batch keep their order; so does the returned table.
C10_LatestBatchFirst ==
    /\ df_final.rows = LatestFirst(batches)
    /\ pc = "returned" => ret = <<df_final>>

C10_Witness ==
    /\ pc = "returned"
    /\ Len(ret[1].rows) = 2
    /\ ret[1].rows[1] # ret[1].rows[2]
    /\ \E k, l \in DOMAIN batches :
         /\ k < l
         /\ BatchRows(batches[k]) = <<ret[1].rows[2]>>
         /\ BatchRows(batches[l]) = <<ret[1].rows[1]>>
====
